---- MODULE Spec2Model ----
(***************************************************************************)
(* IVR call-flow controller (src/main.py) and its action formatter         *)
(* (src/utils/helper.py).  Every webhook is a stateless request/response:  *)
(* the state of the model is the configuration read at start (APP_URL),    *)
(* the last request the carrier posted and the response it received.       *)
(* trail lists the requests of the call the carrier is following, inflight *)
(* holds the requests being handled concurrently, fmt the last direct call *)
(* of a formatter function.                                                *)
(* Texts are TLA+ strings, built by the same concatenations as the code;   *)
(* the markup of a response is read back by a small reader (ParseDoc) so   *)
(* that the properties speak about the actions the carrier would see.      *)
(***************************************************************************)
EXTENDS Integers, Sequences, FiniteSets, TLC

VARIABLES APP_URL, route, form, fault, resp, trail, inflight, fmt

vars == <<APP_URL, route, form, fault, resp, trail, inflight, fmt>>

(***************************************************************************)
(* Optional[str]: None is the empty tuple, a present string s is <<s>>.    *)
(***************************************************************************)
None == <<>>

Some(s) == <<s>>

\* Python truthiness of an Optional[str]: None and "" are falsy.
Truthy(o) == o # None /\ o[1] # ""

(***************************************************************************)
(* Bounds and input domains.                                               *)
(***************************************************************************)
\* longest keypad string enumerated exhaustively
MaxDigits == 2

Keys == {"1", "2", "3", "4"}

RECURSIVE KeyStrings(_)
KeyStrings(n) ==
    IF n = 0 THEN {""}
    ELSE LET shorter == KeyStrings(n - 1)
         IN  shorter \cup {s \o k : s \in {t \in shorter : Len(t) = n - 1}, k \in Keys}

\* longer or non-digit payloads a carrier can deliver in dtmfDigits
SpecialDigits == {"2545", "25450", "12545", "undefined", "#", "<Record/>"}

DtmfValues == {None} \cup {Some(s) : s \in KeyStrings(MaxDigits) \cup SpecialDigits}

SessionIds == {None, Some("ATVId_7f3a")}

CallerNumbers == {None, Some("+254711000222")}

RecordingUrls == {None, Some("https://media.example.net/rec/1.mp3")}

Durations == {None, Some("12")}

\* values of the APP_URL environment variable; the first is the default
AppUrls == {"https://your-domain.com", "https://ivr.example.org", ""}

(***************************************************************************)
(* src/utils/helper.py: the action formatter.                              *)
(***************************************************************************)
saySomething(speech) == "<Say>" \o speech \o "</Say>"

ongea(textPrompt, finishOnKey, timeout, callbackUrl) ==
    "<Say>" \o textPrompt \o "</Say>"
    \o "<CollectDigits timeout='" \o ToString(timeout)
    \o "' finishOnKey='" \o finishOnKey
    \o "' callbackUrl='" \o callbackUrl \o "'/>"

\* variant: the processing URL is read under a key the callers do not set
recordAudio_wrongKey(introductionText, audioProcessingUrl) ==
    "<Say>" \o introductionText \o "</Say>"
    \o "<Record finishOnKey='#' maxLength='60' playBeep='true' callbackUrl='"
    \o "" \o "'/>"

recordAudio(introductionText, audioProcessingUrl) ==
    "<Say>" \o introductionText \o "</Say>"
    \o "<Record finishOnKey='#' maxLength='60' playBeep='true' callbackUrl='"
    \o audioProcessingUrl \o "'/>"

collectDigits(prompt, numDigits, timeout, finishOnKey, callbackUrl) ==
    "<Say>" \o prompt \o "</Say>"
    \o "<CollectDigits timeout='" \o ToString(timeout)
    \o "' finishOnKey='" \o finishOnKey
    \o "' numDigits='" \o ToString(numDigits)
    \o "' callbackUrl='" \o callbackUrl \o "'/>"

(***************************************************************************)
(* src/main.py: envelope and transport responses.                          *)
(***************************************************************************)
\* the awaited value of a str is the str itself (it has no __await__)
maybe_await(result) == result

create_xml_response(content) ==
    "<?xml version='1.0' encoding='UTF-8'?><Response>" \o content \o "</Response>"

\* Response(content=xml_response, media_type="text/xml")
XmlResponse(xml_response) ==
    [status_code |-> 200, content |-> xml_response, media_type |-> Some("text/xml")]

\* Response(content="", status_code=204)
NoContent == [status_code |-> 204, content |-> "", media_type |-> None]

\* raise HTTPException(status_code=500, detail="Internal server error")
InternalServerError ==
    [status_code |-> 500, content |-> "{\"detail\":\"Internal server error\"}",
     media_type |-> Some("application/json")]

(***************************************************************************)
(* src/main.py: the step handlers.  `raised` tells whether an unexpected   *)
(* exception was raised inside the handler's try block.                    *)
(***************************************************************************)
\* variant: the greeting is rendered with ongea(), which has no numDigits
voice_entry_viaOngea(appUrl, sessionId, callerNumber, raised) ==
    IF raised THEN InternalServerError
    ELSE XmlResponse(create_xml_response(ongea(
             "Welcome to Ongea Emergency Services! Press 1 for English or 2 for Swahili.",
             "#", 10, appUrl \o "/voice/language")))

voice_entry(appUrl, sessionId, callerNumber, raised) ==
    IF raised THEN InternalServerError
    ELSE LET response_content ==
                 "<Say>Welcome to Ongea Emergency Services! "
                 \o "Press 1 for English or 2 for Swahili.</Say>"
                 \o "<CollectDigits timeout='10' finishOnKey='#' numDigits='1' "
                 \o "callbackUrl='" \o appUrl \o "/voice/language'/>"
         IN  XmlResponse(create_xml_response(response_content))

\* variant: only key 1 is accepted
language_keys_englishOnly == {Some("1")}

\* variant: key 4 is accepted as a language too
language_keys_withFour == {Some("1"), Some("2"), Some("4")}

\* the keys accepted by language_selection
language_keys == {Some("1"), Some("2")}

\* variant: an invalid selection is prompted again on the same step
language_selection_retry(appUrl, dtmfDigits, sessionId, callerNumber, raised) ==
    IF raised THEN InternalServerError
    ELSE LET call_actions ==
                 IF ~Truthy(dtmfDigits) \/ dtmfDigits \notin language_keys
                 THEN ongea("Invalid selection. Please try again.", "#", 10,
                            appUrl \o "/voice/language")
                 ELSE ongea("Welcome to Ongea Emergency Services. Press 1 to report hunger, press 2 to report water shortage, press 3 for medical emergency.",
                            "#", 10, appUrl \o "/service/selection")
         IN  XmlResponse(create_xml_response(call_actions))

\* variant: the except clause answers with the invalid-selection prompt
language_selection_swallow(appUrl, dtmfDigits, sessionId, callerNumber, raised) ==
    LET call_actions ==
            IF raised \/ ~Truthy(dtmfDigits) \/ dtmfDigits \notin language_keys
            THEN saySomething("Invalid selection. Please try again.")
            ELSE ongea("Welcome to Ongea Emergency Services. Press 1 to report hunger, press 2 to report water shortage, press 3 for medical emergency.",
                       "#", 10, appUrl \o "/service/selection")
    IN  XmlResponse(create_xml_response(call_actions))

language_selection(appUrl, dtmfDigits, sessionId, callerNumber, raised) ==
    IF raised THEN InternalServerError
    ELSE LET pressed_key == dtmfDigits
             call_actions ==
                 IF ~Truthy(pressed_key) \/ pressed_key \notin language_keys
                 THEN maybe_await(saySomething("Invalid selection. Please try again."))
                 ELSE maybe_await(ongea(
                          "Welcome to Ongea Emergency Services. Press 1 to report hunger, press 2 to report water shortage, press 3 for medical emergency.",
                          "#", 10, appUrl \o "/service/selection"))
         IN  XmlResponse(create_xml_response(call_actions))

\* variant: the hunger and water branches carry each other's callback URL
service_selection_crossed(appUrl, dtmfDigits, sessionId, callerNumber, raised) ==
    IF raised THEN InternalServerError
    ELSE IF ~Truthy(dtmfDigits) THEN NoContent
    ELSE LET call_actions ==
                 IF dtmfDigits = Some("1")
                 THEN ongea("Thank you for reporting hunger. Please select your region: Press 1 for Nairobi, 2 for Turkana, 3 for Kiambu.",
                            "#", 15, appUrl \o "/water/region")
                 ELSE IF dtmfDigits = Some("2")
                 THEN ongea("Thank you for reporting water shortage. Please select your region: Press 1 for Nairobi, 2 for Turkana, 3 for Kiambu.",
                            "#", 15, appUrl \o "/hunger/region")
                 ELSE IF dtmfDigits = Some("3")
                 THEN ongea("Medical emergency reported. Please select your region: Press 1 for Nairobi, 2 for Turkana, 3 for Kiambu.",
                            "#", 15, appUrl \o "/emergency/region")
                 ELSE saySomething("Invalid selection. Please press 1, 2, or 3.")
         IN  XmlResponse(create_xml_response(call_actions))

service_selection(appUrl, dtmfDigits, sessionId, callerNumber, raised) ==
    IF raised THEN InternalServerError
    ELSE LET pressed_key == dtmfDigits
         IN  IF ~Truthy(pressed_key) THEN NoContent
             ELSE LET call_actions ==
                          IF pressed_key = Some("1")
                          THEN maybe_await(ongea(
                                   "Thank you for reporting hunger. Please select your region: Press 1 for Nairobi, 2 for Turkana, 3 for Kiambu.",
                                   "#", 15, appUrl \o "/hunger/region"))
                          ELSE IF pressed_key = Some("2")
                          THEN maybe_await(ongea(
                                   "Thank you for reporting water shortage. Please select your region: Press 1 for Nairobi, 2 for Turkana, 3 for Kiambu.",
                                   "#", 15, appUrl \o "/water/region"))
                          ELSE IF pressed_key = Some("3")
                          THEN maybe_await(ongea(
                                   "Medical emergency reported. Please select your region: Press 1 for Nairobi, 2 for Turkana, 3 for Kiambu.",
                                   "#", 15, appUrl \o "/emergency/region"))
                          ELSE maybe_await(saySomething("Invalid selection. Please press 1, 2, or 3."))
                  IN  XmlResponse(create_xml_response(call_actions))

\* variant: the table is looked up by the first key pressed only
handle_region_response_firstKey(pressed_key, responses, raised) ==
    IF raised THEN InternalServerError
    ELSE IF ~Truthy(pressed_key) THEN NoContent
    ELSE LET first == SubSeq(pressed_key[1], 1, 1)
             speech_text ==
                 IF first \in DOMAIN responses
                 THEN responses[first]
                 ELSE "Invalid selection. Goodbye."
         IN  XmlResponse(create_xml_response(maybe_await(saySomething(speech_text))))

\* variant: the guard on an absent key is left out
handle_region_response_noGuard(pressed_key, responses, raised) ==
    IF raised THEN InternalServerError
    ELSE LET speech_text ==
                 IF pressed_key # None /\ pressed_key[1] \in DOMAIN responses
                 THEN responses[pressed_key[1]]
                 ELSE "Invalid selection. Goodbye."
         IN  XmlResponse(create_xml_response(maybe_await(saySomething(speech_text))))

\* responses.get(pressed_key, "Invalid selection. Goodbye.")
handle_region_response(pressed_key, responses, raised) ==
    IF raised THEN InternalServerError
    ELSE IF ~Truthy(pressed_key) THEN NoContent
    ELSE LET speech_text ==
                 IF pressed_key[1] \in DOMAIN responses
                 THEN responses[pressed_key[1]]
                 ELSE "Invalid selection. Goodbye."
             call_actions == maybe_await(saySomething(speech_text))
         IN  XmlResponse(create_xml_response(call_actions))

\* variant: the hunger table has no entry for key 3
hunger_region_responses_noKiambu ==
    [k \in {"1", "2"} |->
        CASE k = "1" -> "Thank you. Nairobi region office has been notified about the hunger situation. They will contact you shortly."
          [] k = "2" -> "Thank you. Turkana region office has been notified about the hunger situation. They will contact you shortly."]

hunger_region_responses ==
    [k \in {"1", "2", "3"} |->
        CASE k = "1" -> "Thank you. Nairobi region office has been notified about the hunger situation. They will contact you shortly."
          [] k = "2" -> "Thank you. Turkana region office has been notified about the hunger situation. They will contact you shortly."
          [] k = "3" -> "Thank you. Kiambu region office has been notified about the hunger situation. They will contact you shortly."]

hunger_region_selection(dtmfDigits, sessionId, callerNumber, raised) ==
    handle_region_response(dtmfDigits, hunger_region_responses, raised)

\* variant: the water table is a copy of the hunger table
water_region_responses_copied == hunger_region_responses

water_region_responses ==
    [k \in {"1", "2", "3"} |->
        CASE k = "1" -> "Thank you. Nairobi water department has been notified about the water shortage. They will address this issue."
          [] k = "2" -> "Thank you. Turkana water department has been notified about the water shortage. They will address this issue."
          [] k = "3" -> "Thank you. Kiambu water department has been notified about the water shortage. They will address this issue."]

water_region_selection(dtmfDigits, sessionId, callerNumber, raised) ==
    handle_region_response(dtmfDigits, water_region_responses, raised)

\* variant: keys 2 and 3 name each other's region
regions_swapped ==
    [k \in {"1", "2", "3"} |->
        CASE k = "1" -> "Nairobi" [] k = "2" -> "Kiambu" [] k = "3" -> "Turkana"]

\* regions = {"1": "Nairobi", "2": "Turkana", "3": "Kiambu"}
regions ==
    [k \in {"1", "2", "3"} |->
        CASE k = "1" -> "Nairobi" [] k = "2" -> "Turkana" [] k = "3" -> "Kiambu"]

\* variant: key 4 is accepted although the regions dict has no entry for it
emergency_keys_withFour == {Some("1"), Some("2"), Some("3"), Some("4")}

\* the keys accepted by emergency_region_selection
emergency_keys == {Some("1"), Some("2"), Some("3")}

emergency_region_selection(appUrl, dtmfDigits, sessionId, callerNumber, raised) ==
    IF raised THEN InternalServerError
    ELSE LET pressed_key == dtmfDigits
             call_actions ==
                 IF pressed_key \in emergency_keys
                 THEN LET region_name == regions[pressed_key[1]]
                      IN  maybe_await(recordAudio(
                              "Emergency services for " \o region_name
                              \o " region activated. Please describe your emergency in detail and press hash when finished.",
                              appUrl \o "/emergency/recording"))
                 ELSE maybe_await(saySomething("Invalid selection. Please press 1, 2, or 3."))
             \* regions[pressed_key] raises KeyError on a key the dict lacks
             key_error == pressed_key \in emergency_keys /\ pressed_key[1] \notin DOMAIN regions
         IN  IF key_error THEN InternalServerError
             ELSE XmlResponse(create_xml_response(call_actions))

\* variant: the acknowledgement repeats the reported duration
emergency_recording_handler_echoDuration(recordingUrl, durationInSeconds, sessionId, callerNumber, raised) ==
    IF raised THEN InternalServerError
    ELSE LET heard == IF durationInSeconds = None THEN ""
                      ELSE " We received " \o durationInSeconds[1] \o " seconds."
         IN  XmlResponse(create_xml_response(saySomething(
                 "Your emergency report has been recorded and sent to the appropriate authorities. Emergency services will respond shortly. Thank you for calling."
                 \o heard)))

emergency_recording_handler(recordingUrl, durationInSeconds, sessionId, callerNumber, raised) ==
    IF raised THEN InternalServerError
    ELSE LET call_actions ==
                 maybe_await(saySomething(
                     "Your emergency report has been recorded and sent to the appropriate authorities. Emergency services will respond shortly. Thank you for calling."))
         IN  XmlResponse(create_xml_response(call_actions))

\* variant: only the literal "undefined" is answered with the no-op
ongea_noop_keys_undefinedOnly == {Some("undefined")}

\* the inputs ongea_special answers with the no-op: [None, "undefined"]
ongea_noop_keys == {None, Some("undefined")}

\* variant: the code is accepted when the input merely contains "2545"
ongea_special_contains(appUrl, dtmfDigits, raised) ==
    IF raised THEN InternalServerError
    ELSE IF dtmfDigits \in ongea_noop_keys THEN NoContent
    ELSE LET s == dtmfDigits[1]
             has == \E i \in 1..Len(s) : i + 3 <= Len(s) /\ SubSeq(s, i, i + 3) = "2545"
             call_actions ==
                 IF has
                 THEN ongea("Welcome Back to Medicare Services.", "#", 15,
                            appUrl \o "/emergency/region")
                 ELSE saySomething("The code entered is not valid.")
         IN  XmlResponse(create_xml_response(call_actions))

ongea_special(appUrl, dtmfDigits, raised) ==
    IF raised THEN InternalServerError
    ELSE LET pressed_key == dtmfDigits
         IN  IF pressed_key \in ongea_noop_keys THEN NoContent
             ELSE LET call_actions ==
                          IF pressed_key = Some("2545")
                          THEN maybe_await(ongea("Welcome Back to Medicare Services.",
                                                 "#", 15, appUrl \o "/emergency/region"))
                          ELSE maybe_await(saySomething("The code entered is not valid."))
                  IN  XmlResponse(create_xml_response(call_actions))

(***************************************************************************)
(* The carrier posts a request; the handler answers.                       *)
(***************************************************************************)
EmptyForm ==
    [dtmfDigits |-> None, sessionId |-> None, callerNumber |-> None,
     recordingUrl |-> None, durationInSeconds |-> None]

NoResponse == [status_code |-> 0, content |-> "", media_type |-> None]

\* FastAPI routing: the handler registered for the path answers the request
Handle(appUrl, r, f, raised) ==
    CASE r = "/voice" -> voice_entry(appUrl, f.sessionId, f.callerNumber, raised)
      [] r = "/voice/language" ->
             language_selection(appUrl, f.dtmfDigits, f.sessionId, f.callerNumber, raised)
      [] r = "/service/selection" ->
             service_selection(appUrl, f.dtmfDigits, f.sessionId, f.callerNumber, raised)
      [] r = "/hunger/region" ->
             hunger_region_selection(f.dtmfDigits, f.sessionId, f.callerNumber, raised)
      [] r = "/water/region" ->
             water_region_selection(f.dtmfDigits, f.sessionId, f.callerNumber, raised)
      [] r = "/emergency/region" ->
             emergency_region_selection(appUrl, f.dtmfDigits, f.sessionId, f.callerNumber, raised)
      [] r = "/emergency/recording" ->
             emergency_recording_handler(f.recordingUrl, f.durationInSeconds,
                                         f.sessionId, f.callerNumber, raised)
      [] r = "/ongea" -> ongea_special(appUrl, f.dtmfDigits, raised)

\* number of requests that can be in flight at once
MaxInflight == 2

Slots == 1..MaxInflight

\* seen is the configuration as it was when the request arrived
IdleSlot == [pc |-> "idle", route |-> "none", form |-> EmptyForm, seen |-> "",
             fault |-> FALSE, resp |-> NoResponse]

NoFormat == [fn |-> "none", args |-> <<>>, out |-> ""]

Init ==
    /\ APP_URL \in AppUrls
    /\ route = "none"
    /\ form = EmptyForm
    /\ fault = FALSE
    /\ resp = NoResponse
    /\ trail = <<>>
    /\ inflight = [s \in Slots |-> IdleSlot]
    /\ fmt = NoFormat

PostVoice(raised) ==
    \E sid \in SessionIds, cn \in CallerNumbers :
        /\ route' = "/voice"
        /\ form' = [EmptyForm EXCEPT !.sessionId = sid, !.callerNumber = cn]
        /\ fault' = raised
        /\ resp' = voice_entry(APP_URL, sid, cn, raised)
        /\ UNCHANGED <<APP_URL, trail, inflight, fmt>>

PostVoiceLanguage(raised) ==
    \E d \in DtmfValues, sid \in SessionIds, cn \in CallerNumbers :
        /\ route' = "/voice/language"
        /\ form' = [EmptyForm EXCEPT !.dtmfDigits = d, !.sessionId = sid,
                                     !.callerNumber = cn]
        /\ fault' = raised
        /\ resp' = language_selection(APP_URL, d, sid, cn, raised)
        /\ UNCHANGED <<APP_URL, trail, inflight, fmt>>

PostServiceSelection(raised) ==
    \E d \in DtmfValues, sid \in SessionIds, cn \in CallerNumbers :
        /\ route' = "/service/selection"
        /\ form' = [EmptyForm EXCEPT !.dtmfDigits = d, !.sessionId = sid,
                                     !.callerNumber = cn]
        /\ fault' = raised
        /\ resp' = service_selection(APP_URL, d, sid, cn, raised)
        /\ UNCHANGED <<APP_URL, trail, inflight, fmt>>

PostHungerRegion(raised) ==
    \E d \in DtmfValues, sid \in SessionIds, cn \in CallerNumbers :
        /\ route' = "/hunger/region"
        /\ form' = [EmptyForm EXCEPT !.dtmfDigits = d, !.sessionId = sid,
                                     !.callerNumber = cn]
        /\ fault' = raised
        /\ resp' = hunger_region_selection(d, sid, cn, raised)
        /\ UNCHANGED <<APP_URL, trail, inflight, fmt>>

PostWaterRegion(raised) ==
    \E d \in DtmfValues, sid \in SessionIds, cn \in CallerNumbers :
        /\ route' = "/water/region"
        /\ form' = [EmptyForm EXCEPT !.dtmfDigits = d, !.sessionId = sid,
                                     !.callerNumber = cn]
        /\ fault' = raised
        /\ resp' = water_region_selection(d, sid, cn, raised)
        /\ UNCHANGED <<APP_URL, trail, inflight, fmt>>

PostEmergencyRegion(raised) ==
    \E d \in DtmfValues, sid \in SessionIds, cn \in CallerNumbers :
        /\ route' = "/emergency/region"
        /\ form' = [EmptyForm EXCEPT !.dtmfDigits = d, !.sessionId = sid,
                                     !.callerNumber = cn]
        /\ fault' = raised
        /\ resp' = emergency_region_selection(APP_URL, d, sid, cn, raised)
        /\ UNCHANGED <<APP_URL, trail, inflight, fmt>>

PostEmergencyRecording(raised) ==
    \E ru \in RecordingUrls, du \in Durations, sid \in SessionIds, cn \in CallerNumbers :
        /\ route' = "/emergency/recording"
        /\ form' = [EmptyForm EXCEPT !.recordingUrl = ru, !.durationInSeconds = du,
                                     !.sessionId = sid, !.callerNumber = cn]
        /\ fault' = raised
        /\ resp' = emergency_recording_handler(ru, du, sid, cn, raised)
        /\ UNCHANGED <<APP_URL, trail, inflight, fmt>>

PostOngea(raised) ==
    \E d \in DtmfValues :
        /\ route' = "/ongea"
        /\ form' = [EmptyForm EXCEPT !.dtmfDigits = d]
        /\ fault' = raised
        /\ resp' = ongea_special(APP_URL, d, raised)
        /\ UNCHANGED <<APP_URL, trail, inflight, fmt>>

Next ==
    \/ PostVoice(FALSE)
    \/ PostVoiceLanguage(FALSE)
    \/ PostServiceSelection(FALSE)
    \/ PostHungerRegion(FALSE)
    \/ PostWaterRegion(FALSE)
    \/ PostEmergencyRegion(FALSE)
    \/ PostEmergencyRecording(FALSE)
    \/ PostOngea(FALSE)

Spec == Init /\ [][Next]_vars

(***************************************************************************)
(* The same requests when an unexpected exception may be raised inside the *)
(* try block of the handler that answers.                                  *)
(***************************************************************************)
NextFault ==
    \E raised \in BOOLEAN :
        \/ PostVoice(raised)
        \/ PostVoiceLanguage(raised)
        \/ PostServiceSelection(raised)
        \/ PostHungerRegion(raised)
        \/ PostWaterRegion(raised)
        \/ PostEmergencyRegion(raised)
        \/ PostEmergencyRecording(raised)
        \/ PostOngea(raised)

SpecFault == Init /\ [][NextFault]_vars

(***************************************************************************)
(* Concurrent handling: a request is received into a free slot, answered   *)
(* by its handler in a later step, and the slot is released once the       *)
(* response is sent.  Steps of different slots interleave freely.          *)
(***************************************************************************)
ConcDigits == {None, Some("1"), Some("4")}

ConcRequests ==
    {[route |-> "/voice", form |-> EmptyForm],
     [route |-> "/emergency/recording", form |-> EmptyForm]}
    \cup {[route |-> r, form |-> [EmptyForm EXCEPT !.dtmfDigits = d]] :
             r \in {"/voice/language", "/service/selection", "/hunger/region",
                    "/water/region", "/emergency/region", "/ongea"},
             d \in ConcDigits}

\* variant: the language step keeps the chosen language in the shared base URL
ConfigAfter_languageBase(appUrl, r, f) ==
    IF r = "/voice/language" /\ f.dtmfDigits = Some("1")
    THEN "https://en.your-domain.com" ELSE appUrl

\* the module configuration after a handler ran: handlers only read it
ConfigAfter(appUrl, r, f) == appUrl

Receive(s) ==
    /\ inflight[s].pc = "idle"
    /\ \E rq \in ConcRequests :
           inflight' = [inflight EXCEPT ![s] =
                           [pc |-> "received", route |-> rq.route, form |-> rq.form,
                            seen |-> APP_URL, fault |-> FALSE, resp |-> NoResponse]]
    /\ UNCHANGED <<APP_URL, route, form, fault, resp, trail, fmt>>

Answer(s) ==
    /\ inflight[s].pc = "received"
    /\ \E raised \in BOOLEAN :
           inflight' = [inflight EXCEPT ![s] =
                           [inflight[s] EXCEPT
                                !.pc = "done", !.fault = raised,
                                !.resp = Handle(APP_URL, inflight[s].route,
                                                inflight[s].form, raised)]]
    /\ APP_URL' = ConfigAfter(APP_URL, inflight[s].route, inflight[s].form)
    /\ UNCHANGED <<route, form, fault, resp, trail, fmt>>

Release(s) ==
    /\ inflight[s].pc = "done"
    /\ inflight' = [inflight EXCEPT ![s] = IdleSlot]
    /\ UNCHANGED <<APP_URL, route, form, fault, resp, trail, fmt>>

NextConc ==
    \E s \in Slots :
        \/ Receive(s)
        \/ Answer(s)
        \/ Release(s)

SpecConc == Init /\ [][NextConc]_vars

(***************************************************************************)
(* Direct calls of the formatter functions with arbitrary arguments.       *)
(***************************************************************************)
FmtTexts ==
    {"Hi", "", "Press 1 or 2.", "Tom & Jerry", "if a < b press 1",
     "x</Say><Hangup/><Say>y", "it's urgent"}

FmtFinishKeys == {"#", "*", "'"}

FmtNumDigits == {1, 4}

FmtTimeouts == {10, 15}

FmtUrls == {"https://x/y", "", "https://x/y?a=1&b=2", "https://x/'y"}

CallSaySomething ==
    /\ \E t \in FmtTexts :
           fmt' = [fn |-> "saySomething", args |-> [text |-> t], out |-> saySomething(t)]
    /\ UNCHANGED <<APP_URL, route, form, fault, resp, trail, inflight>>

CallOngea ==
    /\ \E t \in FmtTexts, k \in FmtFinishKeys, to \in FmtTimeouts, u \in FmtUrls :
           fmt' = [fn |-> "ongea",
                   args |-> [text |-> t, finishOnKey |-> k, timeout |-> to, callbackUrl |-> u],
                   out |-> ongea(t, k, to, u)]
    /\ UNCHANGED <<APP_URL, route, form, fault, resp, trail, inflight>>

CallRecordAudio ==
    /\ \E t \in FmtTexts, u \in FmtUrls :
           fmt' = [fn |-> "recordAudio", args |-> [text |-> t, callbackUrl |-> u],
                   out |-> recordAudio(t, u)]
    /\ UNCHANGED <<APP_URL, route, form, fault, resp, trail, inflight>>

CallCollectDigits ==
    /\ \E t \in FmtTexts, n \in FmtNumDigits, to \in FmtTimeouts,
          k \in FmtFinishKeys, u \in FmtUrls :
           fmt' = [fn |-> "collectDigits",
                   args |-> [text |-> t, numDigits |-> n, timeout |-> to,
                             finishOnKey |-> k, callbackUrl |-> u],
                   out |-> collectDigits(t, n, to, k, u)]
    /\ UNCHANGED <<APP_URL, route, form, fault, resp, trail, inflight>>

NextFormat ==
    \/ CallSaySomething
    \/ CallOngea
    \/ CallRecordAudio
    \/ CallCollectDigits

SpecFormat == Init /\ [][NextFormat]_vars

(***************************************************************************)
(* The carrier's reading of a response: the markup document is split into  *)
(* its action elements.  A Say element carries text up to its end tag; any  *)
(* other element is an empty tag with name='value' attributes.  A document  *)
(* that does not have this shape reads as a single Malformed element.       *)
(***************************************************************************)
StartsAt(s, i, t) ==
    /\ i >= 1
    /\ i + Len(t) - 1 <= Len(s)
    /\ SubSeq(s, i, i + Len(t) - 1) = t

\* index of the first occurrence of t in s at or after position from, else 0
Find(s, t, from) ==
    LET hits == {i \in from..(Len(s) - Len(t) + 1) : StartsAt(s, i, t)}
    IN  IF hits = {} THEN 0 ELSE CHOOSE i \in hits : \A j \in hits : i <= j

Contains(s, t) == Find(s, t, 1) # 0

Element(tag, text, attrs) == [tag |-> tag, text |-> text, attrs |-> attrs]

Malformed == Element("Malformed", "", <<>>)

\* the attributes from position p up to the closing "/>": [attrs, next]
RECURSIVE ReadAttrs(_, _)
ReadAttrs(s, p) ==
    IF StartsAt(s, p, "/>") THEN [attrs |-> <<>>, next |-> p + 2]
    ELSE IF StartsAt(s, p, " ") THEN ReadAttrs(s, p + 1)
    ELSE LET e == Find(s, "='", p)
             q == IF e = 0 THEN 0 ELSE Find(s, "'", e + 2)
         IN  IF e = 0 \/ q = 0 \/ e = p THEN [attrs |-> <<>>, next |-> 0]
             ELSE LET rest == ReadAttrs(s, q + 1)
                  IN  [attrs |-> <<<<SubSeq(s, p, e - 1), SubSeq(s, e + 2, q - 1)>>>>
                                 \o rest.attrs,
                       next |-> rest.next]

\* end of the tag name that starts at position p
NameEnd(s, p) ==
    LET sp == Find(s, " ", p)
        cl == Find(s, "/>", p)
    IN  IF cl = 0 THEN 0
        ELSE IF sp # 0 /\ sp < cl THEN sp ELSE cl

RECURSIVE ReadElements(_, _)
ReadElements(s, i) ==
    IF i > Len(s) THEN <<>>
    ELSE IF StartsAt(s, i, "<Say>")
    THEN LET j == Find(s, "<", i + 5)
         IN  IF j = 0 \/ ~StartsAt(s, j, "</Say>") THEN <<Malformed>>
             ELSE <<Element("Say", SubSeq(s, i + 5, j - 1), <<>>)>>
                  \o ReadElements(s, j + 6)
    ELSE IF StartsAt(s, i, "<")
    THEN LET n == NameEnd(s, i + 1)
             a == IF n = 0 THEN [attrs |-> <<>>, next |-> 0] ELSE ReadAttrs(s, n)
         IN  IF n = 0 \/ n = i + 1 \/ a.next = 0 THEN <<Malformed>>
             ELSE <<Element(SubSeq(s, i + 1, n - 1), "", a.attrs)>>
                  \o ReadElements(s, a.next)
    ELSE <<Malformed>>

DocOpen == "<?xml version='1.0' encoding='UTF-8'?><Response>"

DocClose == "</Response>"

ParseDoc(body) ==
    IF /\ Len(body) >= Len(DocOpen) + Len(DocClose)
       /\ StartsAt(body, 1, DocOpen)
       /\ StartsAt(body, Len(body) - Len(DocClose) + 1, DocClose)
    THEN ReadElements(SubSeq(body, Len(DocOpen) + 1, Len(body) - Len(DocClose)), 1)
    ELSE <<Malformed>>

\* the actions of a transport response: only a 200 markup response has any
ActionsOf(r) ==
    IF r.status_code = 200 /\ r.media_type = Some("text/xml")
    THEN ParseDoc(r.content) ELSE <<>>

Actions == ActionsOf(resp)

TagsOf(acts) == [i \in 1..Len(acts) |-> acts[i].tag]

\* the values an element gives to the attribute named n
AttrValues(el, n) == {el.attrs[i][2] : i \in {j \in 1..Len(el.attrs) : el.attrs[j][1] = n}}

HasAttr(el, n, v) == AttrValues(el, n) = {v}

IsMarkup200 == resp.status_code = 200 /\ resp.media_type = Some("text/xml")

IsNoOp204 == resp.status_code = 204 /\ resp.content = "" /\ resp.media_type = None

\* the request carried dtmfDigits d
Pressed(d) == form.dtmfDigits = Some(d)

Missing == form.dtmfDigits = None

Say(text) == Element("Say", text, <<>>)

\* the routes that take caller digits
DigitRoutes ==
    {"/voice/language", "/service/selection", "/hunger/region", "/water/region",
     "/emergency/region", "/ongea"}

\* the valid-input set of each digit step
ValidInputs(r) ==
    CASE r = "/voice/language" -> {"1", "2"}
      [] r = "/ongea" -> {"2545"}
      [] OTHER -> {"1", "2", "3"}

\* the fixed invalid-selection text of each digit step
InvalidSelectionText(r) ==
    CASE r = "/voice/language" -> "Invalid selection. Please try again."
      [] r \in {"/service/selection", "/emergency/region"} ->
             "Invalid selection. Please press 1, 2, or 3."
      [] r \in {"/hunger/region", "/water/region"} -> "Invalid selection. Goodbye."
      [] r = "/ongea" -> "The code entered is not valid."

\* the request carries a present, non-empty input outside the step's valid set
PresentInvalid ==
    /\ route \in DigitRoutes
    /\ form.dtmfDigits # None
    /\ form.dtmfDigits[1] # ""
    /\ ~(route = "/ongea" /\ form.dtmfDigits[1] = "undefined")
    /\ form.dtmfDigits[1] \notin ValidInputs(route)

(***************************************************************************)
(* C1: on each digit step, a present input outside the step's valid-input  *)
(* set is answered with a 200 markup document whose only action is one Say *)
(* with the step's fixed invalid-selection text: no CollectDigits, no      *)
(* Record.                                                                 *)
(***************************************************************************)
C1_InvalidInputHalts ==
    PresentInvalid =>
        /\ IsMarkup200
        /\ Actions = <<Say(InvalidSelectionText(route))>>

C1_Witness ==
    /\ route = "/hunger/region"
    /\ Pressed("12")
    /\ PresentInvalid
    /\ Actions = <<Say("Invalid selection. Goodbye.")>>

(***************************************************************************)
(* C2: on ServiceSelect, HungerRegion and WaterRegion a request without    *)
(* dtmfDigits is answered with status 204 and an empty body: no action and *)
(* no callback URL.                                                        *)
(***************************************************************************)
C2_MissingIsNoOp ==
    (route \in {"/service/selection", "/hunger/region", "/water/region"} /\ Missing) =>
        /\ IsNoOp204
        /\ Actions = <<>>
        /\ ~Contains(resp.content, "callbackUrl")

C2_Witness ==
    /\ route = "/water/region"
    /\ Missing
    /\ resp.status_code = 204
    /\ resp.content = ""

(***************************************************************************)
(* C3 as stated: on every digit step a request without dtmfDigits is       *)
(* answered with the empty 204.                                            *)
(***************************************************************************)
C3_MissingAlways204 ==
    (route \in DigitRoutes /\ Missing) => IsNoOp204

(***************************************************************************)
(* C3 amended: a request without dtmfDigits is answered with the empty 204 *)
(* on ServiceSelect, HungerRegion, WaterRegion and Diagnostic, and on      *)
(* LanguageSelect and EmergencyRegion with a 200 markup document whose     *)
(* only action is the step's invalid-selection Say; on no digit step is it *)
(* answered with a transport error.                                        *)
(***************************************************************************)
C3_MissingRecovered ==
    (route \in DigitRoutes /\ Missing) =>
        /\ resp.status_code \in {200, 204}
        /\ IF route \in {"/voice/language", "/emergency/region"}
           THEN IsMarkup200 /\ Actions = <<Say(InvalidSelectionText(route))>>
           ELSE IsNoOp204 /\ Actions = <<>>

C3_Witness ==
    /\ route = "/voice/language"
    /\ Missing
    /\ resp.status_code = 200
    /\ Actions = <<Say("Invalid selection. Please try again.")>>

\* the region each digit stands for: 1=Nairobi, 2=Turkana, 3=Kiambu
RegionOfDigit(d) ==
    CASE d = "1" -> "Nairobi" [] d = "2" -> "Turkana" [] d = "3" -> "Kiambu"

RegionNames == {"Nairobi", "Turkana", "Kiambu"}

\* the text names region n and none of the other regions
NamesOnly(text, n) == \A m \in RegionNames : Contains(text, m) <=> m = n

(***************************************************************************)
(* C4: at EmergencyRegion each of the inputs 1, 2, 3 is answered with a    *)
(* Say naming the region of that digit followed by a Record with maxLength *)
(* 60, playBeep true and callback URL APP_URL + "/emergency/recording";    *)
(* no other input is answered with a Record.                               *)
(***************************************************************************)
C4_EmergencyRegionRecords ==
    route = "/emergency/region" =>
        /\ \A d \in {"1", "2", "3"} :
               Pressed(d) =>
                   /\ IsMarkup200
                   /\ TagsOf(Actions) = <<"Say", "Record">>
                   /\ NamesOnly(Actions[1].text, RegionOfDigit(d))
                   /\ HasAttr(Actions[2], "maxLength", "60")
                   /\ HasAttr(Actions[2], "playBeep", "true")
                   /\ HasAttr(Actions[2], "callbackUrl", APP_URL \o "/emergency/recording")
        /\ form.dtmfDigits \notin {Some("1"), Some("2"), Some("3")} =>
               \A i \in 1..Len(Actions) : Actions[i].tag # "Record"

C4_Witness ==
    /\ route = "/emergency/region"
    /\ Pressed("3")
    /\ TagsOf(Actions) = <<"Say", "Record">>
    /\ Contains(Actions[1].text, "Kiambu")

\* the category phrase and the callback path of each ServiceSelect key
CategoryPhrase(d) ==
    CASE d = "1" -> "reporting hunger"
      [] d = "2" -> "reporting water shortage"
      [] d = "3" -> "Medical emergency"

CategoryPath(d) ==
    CASE d = "1" -> "/hunger/region"
      [] d = "2" -> "/water/region"
      [] d = "3" -> "/emergency/region"

(***************************************************************************)
(* C5: at ServiceSelect input 1 yields the hunger prompt with a            *)
(* CollectDigits targeting APP_URL + "/hunger/region", input 2 the water   *)
(* shortage prompt targeting "/water/region", input 3 the medical prompt   *)
(* targeting "/emergency/region", each with timeout 15 and finishOnKey #;  *)
(* the callback always belongs to the category the prompt names.           *)
(***************************************************************************)
C5_ServiceSelectBranches ==
    route = "/service/selection" =>
        /\ \A d \in {"1", "2", "3"} :
               Pressed(d) =>
                   /\ IsMarkup200
                   /\ TagsOf(Actions) = <<"Say", "CollectDigits">>
                   /\ Contains(Actions[1].text, CategoryPhrase(d))
                   /\ HasAttr(Actions[2], "callbackUrl", APP_URL \o CategoryPath(d))
                   /\ HasAttr(Actions[2], "timeout", "15")
                   /\ HasAttr(Actions[2], "finishOnKey", "#")
        /\ \A i \in 1..Len(Actions) :
               Actions[i].tag = "CollectDigits" =>
                   /\ i = 2
                   /\ Actions[1].tag = "Say"
                   /\ \A d \in {"1", "2", "3"} :
                          Contains(Actions[1].text, CategoryPhrase(d))
                              <=> HasAttr(Actions[i], "callbackUrl", APP_URL \o CategoryPath(d))

C5_Witness ==
    /\ route = "/service/selection"
    /\ Pressed("2")
    /\ TagsOf(Actions) = <<"Say", "CollectDigits">>
    /\ Contains(Actions[1].text, "water shortage")
    /\ HasAttr(Actions[2], "callbackUrl", APP_URL \o "/water/region")

\* the responder phrase of each region route
ResponderPhrase(r) ==
    CASE r = "/hunger/region" -> "region office"
      [] r = "/water/region" -> "water department"

\* the response table a region route answers from
TableOf(r) ==
    CASE r = "/hunger/region" -> hunger_region_responses
      [] r = "/water/region" -> water_region_responses

(***************************************************************************)
(* C6: for every key k of the hunger (resp. water) table, HungerRegion     *)
(* (resp. WaterRegion) with input k answers with a single Say whose text   *)
(* contains the region name of k and the category's responder phrase, and  *)
(* with no CollectDigits, Record or Hangup.                                *)
(***************************************************************************)
C6_RegionAcknowledgement ==
    route \in {"/hunger/region", "/water/region"} =>
        \A k \in DOMAIN TableOf(route) :
            Pressed(k) =>
                /\ IsMarkup200
                /\ TagsOf(Actions) = <<"Say">>
                /\ NamesOnly(Actions[1].text, RegionOfDigit(k))
                /\ Contains(Actions[1].text, ResponderPhrase(route))

C6_Witness ==
    /\ route = "/water/region"
    /\ Pressed("2")
    /\ TagsOf(Actions) = <<"Say">>
    /\ Contains(Actions[1].text, "Turkana water department")

LanguageKeyPressed == Pressed("1") \/ Pressed("2")

\* at LanguageSelect: the menu with its collection on a language key, the
\* invalid-selection Say alone on anything else
C8_LanguageResponse ==
    route = "/voice/language" =>
        /\ IsMarkup200
        /\ IF LanguageKeyPressed
           THEN /\ TagsOf(Actions) = <<"Say", "CollectDigits">>
                /\ Contains(Actions[1].text, "Press 1 to report hunger")
                /\ Contains(Actions[1].text, "press 2 to report water shortage")
                /\ Contains(Actions[1].text, "press 3 for medical emergency")
                /\ HasAttr(Actions[2], "finishOnKey", "#")
                /\ HasAttr(Actions[2], "timeout", "10")
                /\ HasAttr(Actions[2], "callbackUrl", APP_URL \o "/service/selection")
           ELSE Actions = <<Say("Invalid selection. Please try again.")>>

\* two consecutive LanguageSelect requests with language keys get one response
C8_SameForBothKeys ==
    (/\ route = "/voice/language" /\ LanguageKeyPressed
     /\ route' = "/voice/language" /\ LanguageKeyPressed')
        => resp' = resp

(***************************************************************************)
(* C8: at LanguageSelect the inputs 1 and 2 get the identical response, a  *)
(* Say of the service menu and a CollectDigits with finishOnKey #, timeout *)
(* 10 and callback URL APP_URL + "/service/selection"; every other input,  *)
(* a missing one included, gets only the Say "Invalid selection. Please    *)
(* try again." and no collection.                                          *)
(***************************************************************************)
C8_LanguageSelect == []C8_LanguageResponse /\ [][C8_SameForBothKeys]_vars

C8_Witness ==
    /\ route = "/voice/language"
    /\ Pressed("2")
    /\ TagsOf(Actions) = <<"Say", "CollectDigits">>
    /\ HasAttr(Actions[2], "callbackUrl", APP_URL \o "/service/selection")

(***************************************************************************)
(* C9: Entry always emits the greeting: whatever sessionId and             *)
(* callerNumber are, present or absent, the response is a 200 markup       *)
(* document with a Say of the literal greeting followed by a CollectDigits *)
(* with numDigits 1, finishOnKey #, timeout 10 and callback URL            *)
(* APP_URL + "/voice/language"; never the 204 no-op, never an              *)
(* invalid-selection text.                                                 *)
(***************************************************************************)
C9_EntryGreets ==
    route = "/voice" =>
        /\ IsMarkup200
        /\ TagsOf(Actions) = <<"Say", "CollectDigits">>
        /\ Actions[1].text =
               "Welcome to Ongea Emergency Services! Press 1 for English or 2 for Swahili."
        /\ HasAttr(Actions[2], "numDigits", "1")
        /\ HasAttr(Actions[2], "finishOnKey", "#")
        /\ HasAttr(Actions[2], "timeout", "10")
        /\ HasAttr(Actions[2], "callbackUrl", APP_URL \o "/voice/language")
        /\ ~Contains(resp.content, "Invalid selection")

C9_Witness ==
    /\ route = "/voice"
    /\ form.sessionId = None
    /\ form.callerNumber = None
    /\ TagsOf(Actions) = <<"Say", "CollectDigits">>
    /\ HasAttr(Actions[2], "numDigits", "1")

\* the routes with a registered POST handler
PostRoutes ==
    {"/voice", "/voice/language", "/service/selection", "/hunger/region",
     "/water/region", "/emergency/region", "/emergency/recording", "/ongea"}

\* the fixed paths a callback URL may carry
CallbackPaths ==
    {"/voice/language", "/service/selection", "/hunger/region", "/water/region",
     "/emergency/region", "/emergency/recording"}

(***************************************************************************)
(* C10: in every response, each CollectDigits and Record action carries    *)
(* one callbackUrl, equal to APP_URL followed by a fixed path that is the  *)
(* route of a registered handler, so that it is fixed by the configuration *)
(* and the step alone, never by the caller's input; no callback URL is     *)
(* empty, and no other action carries a callbackUrl.                       *)
(***************************************************************************)
C10_CallbackUrls ==
    /\ CallbackPaths \subseteq PostRoutes
    /\ \A i \in 1..Len(Actions) :
           IF Actions[i].tag \in {"CollectDigits", "Record"}
           THEN /\ Cardinality(AttrValues(Actions[i], "callbackUrl")) = 1
                /\ \A u \in AttrValues(Actions[i], "callbackUrl") :
                       /\ u # ""
                       /\ u \in {APP_URL \o path : path \in CallbackPaths}
           ELSE AttrValues(Actions[i], "callbackUrl") = {}

C10_Witness ==
    /\ route = "/emergency/region"
    /\ Pressed("1")
    /\ APP_URL = "https://ivr.example.org"
    /\ Len(Actions) = 2
    /\ Actions[2].tag = "Record"
    /\ AttrValues(Actions[2], "callbackUrl") = {"https://ivr.example.org/emergency/recording"}

\* two consecutive requests to one step with equal dtmfDigits get one response
C11_SameStepSameInput ==
    (/\ route # "none"
     /\ route' = route
     /\ form'.dtmfDigits = form.dtmfDigits)
        => resp' = resp

(***************************************************************************)
(* C11: the response of a step is a function of the step and of            *)
(* dtmfDigits alone: two requests to the same step with equal dtmfDigits   *)
(* get the same status and body whatever their sessionId, callerNumber,    *)
(* recordingUrl and durationInSeconds are and whatever was handled before; *)
(* EmergencyRecording gives the same closing acknowledgement for every     *)
(* payload.  Every request is enabled after every other, so the pairs of   *)
(* consecutive requests are all pairs of requests.                         *)
(***************************************************************************)
C11_ResponseFunctionOfStepAndInput == [][C11_SameStepSameInput]_vars

C11_Witness ==
    /\ route = "/emergency/recording"
    /\ form.recordingUrl # None
    /\ form.durationInSeconds # None
    /\ form.sessionId # None
    /\ Actions = <<Say("Your emergency report has been recorded and sent to the appropriate authorities. Emergency services will respond shortly. Thank you for calling.")>>

\* no element of the response reads as malformed
WellFormed == \A i \in 1..Len(Actions) : Actions[i].tag # "Malformed"

(***************************************************************************)
(* C13: validation and table-lookup failures never escalate to a fault:    *)
(* on every step and for every caller input (valid digit, out-of-range     *)
(* digit, multi-digit string, key absent from a table, missing input), a   *)
(* request during which no unexpected fault occurs ends with a 200 markup  *)
(* response or with the 204 no-op, never with the server-error response.   *)
(***************************************************************************)
C13_NoEscalation ==
    (route # "none" /\ ~fault) =>
        /\ resp.status_code \in {200, 204}
        /\ resp.status_code = 200 => (IsMarkup200 /\ Len(Actions) >= 1 /\ WellFormed)
        /\ resp.status_code = 204 => IsNoOp204

C13_Witness ==
    /\ route = "/emergency/region"
    /\ Pressed("4")
    /\ ~fault
    /\ resp.status_code = 200
    /\ Actions = <<Say("Invalid selection. Please press 1, 2, or 3.")>>

\* a request during which a fault occurs is answered at once with the
\* server error; any request without a fault gets its normal response,
\* whether the request before it failed or not
C14_FaultStep ==
    /\ fault' => (resp' = InternalServerError)
    /\ ~fault' => (resp'.status_code \in {200, 204} /\ resp' # InternalServerError)

\* a failed request has the server-error status and no markup
C14_FaultResponse ==
    fault =>
        /\ resp.status_code = 500
        /\ Actions = <<>>
        /\ ~Contains(resp.content, "<Response>")
        /\ ~Contains(resp.content, "<Say>")

(***************************************************************************)
(* C14: an unexpected fault inside a step handler is caught at the         *)
(* handler's boundary and answered with the server-error status and no     *)
(* markup body; the failing request is not run again, and the requests     *)
(* handled before and after it get their normal responses.                 *)
(***************************************************************************)
C14_FaultContained == []C14_FaultResponse /\ [][C14_FaultStep]_vars

C14_Witness ==
    /\ route = "/hunger/region"
    /\ Pressed("1")
    /\ fault
    /\ resp.status_code = 500

\* every answered request that met no fault has the response it would have
\* got alone, with the configuration as it was when the request arrived
C12_AsIfAlone ==
    \A s \in Slots :
        (inflight[s].pc = "done" /\ ~inflight[s].fault) =>
            inflight[s].resp = Handle(inflight[s].seen, inflight[s].route,
                                      inflight[s].form, FALSE)

\* no step of any handler writes the shared configuration
C12_ConfigReadOnly == APP_URL' = APP_URL

(***************************************************************************)
(* C12: requests of different calls and of different steps of one call may *)
(* be handled concurrently in any interleaving: no handler writes state    *)
(* shared between requests, and each request's response equals the         *)
(* response it would get when handled alone.                               *)
(***************************************************************************)
C12_ConcurrentIndependence == []C12_AsIfAlone /\ [][C12_ConfigReadOnly]_vars

C12_Witness ==
    /\ inflight[1].pc = "done"
    /\ inflight[1].route = "/voice/language"
    /\ inflight[1].form.dtmfDigits = Some("1")
    /\ inflight[1].resp.status_code = 200
    /\ inflight[2].pc = "received"
    /\ inflight[2].route = "/service/selection"

(***************************************************************************)
(* C15: the region tables stay key-aligned: the hunger table, the water    *)
(* table and the EmergencyRegion digit-to-region map have the same key     *)
(* set, for every key all three name the same region, and that is the      *)
(* region every ServiceSelect prompt announces for the key.                *)
(***************************************************************************)
C15_TablesAligned ==
    /\ DOMAIN hunger_region_responses = DOMAIN regions
    /\ DOMAIN water_region_responses = DOMAIN regions
    /\ \A k \in DOMAIN regions :
           /\ k \in DOMAIN hunger_region_responses
                  => NamesOnly(hunger_region_responses[k], regions[k])
           /\ k \in DOMAIN water_region_responses
                  => NamesOnly(water_region_responses[k], regions[k])
    /\ (route = "/service/selection" /\ (Pressed("1") \/ Pressed("2") \/ Pressed("3"))) =>
           /\ Len(Actions) >= 1
           /\ \A k \in DOMAIN regions :
                  /\ Contains(Actions[1].text, k \o " for " \o regions[k])
                  /\ \A n \in RegionNames \ {regions[k]} :
                         ~Contains(Actions[1].text, k \o " for " \o n)

C15_Witness ==
    /\ route = "/service/selection"
    /\ Pressed("3")
    /\ Len(Actions) = 2
    /\ Contains(Actions[1].text, "Press 1 for Nairobi, 2 for Turkana, 3 for Kiambu.")

\* the text an escaped content stands for
RECURSIVE Unescape(_)
Unescape(s) ==
    IF Len(s) = 0 THEN ""
    ELSE IF StartsAt(s, 1, "&lt;") THEN "<" \o Unescape(SubSeq(s, 5, Len(s)))
    ELSE IF StartsAt(s, 1, "&gt;") THEN ">" \o Unescape(SubSeq(s, 5, Len(s)))
    ELSE IF StartsAt(s, 1, "&amp;") THEN "&" \o Unescape(SubSeq(s, 6, Len(s)))
    ELSE IF StartsAt(s, 1, "&apos;") THEN "'" \o Unescape(SubSeq(s, 7, Len(s)))
    ELSE IF StartsAt(s, 1, "&quot;") THEN "\"" \o Unescape(SubSeq(s, 7, Len(s)))
    ELSE SubSeq(s, 1, 1) \o Unescape(SubSeq(s, 2, Len(s)))

\* the elements of the fragment the formatter returned
FmtElements == ReadElements(fmt.out, 1)

\* the tags the formatter function is meant to produce
IntendedTags(fn) ==
    CASE fn = "saySomething" -> <<"Say">>
      [] fn = "ongea" -> <<"Say", "CollectDigits">>
      [] fn = "collectDigits" -> <<"Say", "CollectDigits">>
      [] fn = "recordAudio" -> <<"Say", "Record">>

(***************************************************************************)
(* C16: free text is escaped by the formatter: for any text, also one with *)
(* markup-special characters, the fragment returned by saySomething,       *)
(* collectDigits, ongea and recordAudio consists of exactly the intended   *)
(* action elements, with the text as the escaped content of the Say.       *)
(***************************************************************************)
C16_TextEscaped ==
    fmt.fn # "none" =>
        /\ TagsOf(FmtElements) = IntendedTags(fmt.fn)
        /\ Unescape(FmtElements[1].text) = fmt.args.text

(***************************************************************************)
(* C17: for all parameter values collectDigits returns one Say element     *)
(* containing exactly the prompt followed by one CollectDigits tag that    *)
(* carries the four attributes timeout, finishOnKey, numDigits and         *)
(* callbackUrl with exactly the given values.                              *)
(***************************************************************************)
C17_CollectDigitsRoundTrip ==
    fmt.fn = "collectDigits" =>
        /\ TagsOf(FmtElements) = <<"Say", "CollectDigits">>
        /\ Unescape(FmtElements[1].text) = fmt.args.text
        /\ Len(FmtElements[2].attrs) = 4
        /\ AttrValues(FmtElements[2], "timeout") = {ToString(fmt.args.timeout)}
        /\ AttrValues(FmtElements[2], "numDigits") = {ToString(fmt.args.numDigits)}
        /\ {Unescape(v) : v \in AttrValues(FmtElements[2], "finishOnKey")}
               = {fmt.args.finishOnKey}
        /\ {Unescape(v) : v \in AttrValues(FmtElements[2], "callbackUrl")}
               = {fmt.args.callbackUrl}

\* the round trip of the benign call the specification gives as example
C17_BenignRoundTrip ==
    (/\ fmt.fn = "collectDigits"
     /\ fmt.args = [text |-> "Hi", numDigits |-> 1, timeout |-> 10,
                    finishOnKey |-> "#", callbackUrl |-> "https://x/y"])
        => FmtElements =
               <<Say("Hi"),
                 Element("CollectDigits", "",
                         <<<<"timeout", "10">>, <<"finishOnKey", "#">>,
                           <<"numDigits", "1">>, <<"callbackUrl", "https://x/y">>>>)>>

(***************************************************************************)
(* A carrier that starts a call at Entry or at Diagnostic and from then on *)
(* only posts to the callback URL of the response it last received.        *)
(* trail lists the route and the digits of every request of the call.      *)
(***************************************************************************)
\* cap on the requests of one call
MaxTurns == 6

Turn(r, d) == [route |-> r, dtmfDigits |-> d]

\* the callback URLs the actions with tag t of the last response carry
CallbacksOf(t) ==
    UNION {AttrValues(Actions[i], "callbackUrl") :
               i \in {j \in 1..Len(Actions) : Actions[j].tag = t}}

\* the registered routes a callback URL leads to
TargetsOf(u) == {path \in PostRoutes : APP_URL \o path = u}

CallEntry ==
    \E sid \in SessionIds, cn \in CallerNumbers :
        /\ route' = "/voice"
        /\ form' = [EmptyForm EXCEPT !.sessionId = sid, !.callerNumber = cn]
        /\ fault' = FALSE
        /\ resp' = Handle(APP_URL, route', form', FALSE)
        /\ trail' = <<Turn("/voice", None)>>
        /\ UNCHANGED <<APP_URL, inflight, fmt>>

CallDiagnostic ==
    \E d \in DtmfValues :
        /\ route' = "/ongea"
        /\ form' = [EmptyForm EXCEPT !.dtmfDigits = d]
        /\ fault' = FALSE
        /\ resp' = Handle(APP_URL, route', form', FALSE)
        /\ trail' = <<Turn("/ongea", d)>>
        /\ UNCHANGED <<APP_URL, inflight, fmt>>

\* the digits the caller keyed are posted to the CollectDigits callback
FollowCollectDigits ==
    /\ trail # <<>>
    /\ Len(trail) < MaxTurns
    /\ \E u \in CallbacksOf("CollectDigits") :
       \E r \in TargetsOf(u) :
       \E d \in DtmfValues :
           /\ route' = r
           /\ form' = [EmptyForm EXCEPT !.dtmfDigits = d, !.sessionId = form.sessionId,
                                        !.callerNumber = form.callerNumber]
           /\ fault' = FALSE
           /\ resp' = Handle(APP_URL, route', form', FALSE)
           /\ trail' = Append(trail, Turn(r, d))
    /\ UNCHANGED <<APP_URL, inflight, fmt>>

\* the finished recording is posted to the Record callback
FollowRecord ==
    /\ trail # <<>>
    /\ Len(trail) < MaxTurns
    /\ \E u \in CallbacksOf("Record") :
       \E r \in TargetsOf(u) :
       \E ru \in RecordingUrls, du \in Durations :
           /\ route' = r
           /\ form' = [EmptyForm EXCEPT !.recordingUrl = ru, !.durationInSeconds = du,
                                        !.sessionId = form.sessionId,
                                        !.callerNumber = form.callerNumber]
           /\ fault' = FALSE
           /\ resp' = Handle(APP_URL, route', form', FALSE)
           /\ trail' = Append(trail, Turn(r, None))
    /\ UNCHANGED <<APP_URL, inflight, fmt>>

NextCall ==
    \/ CallEntry
    \/ CallDiagnostic
    \/ FollowCollectDigits
    \/ FollowRecord

SpecCall == Init /\ [][NextCall]_vars

\* position of a step in the call flow
Rank(r) ==
    CASE r \in {"/voice", "/ongea"} -> 0
      [] r = "/voice/language" -> 1
      [] r = "/service/selection" -> 2
      [] r \in {"/hunger/region", "/water/region", "/emergency/region"} -> 3
      [] r = "/emergency/recording" -> 4

AllCallbacks == CallbacksOf("CollectDigits") \cup CallbacksOf("Record")

(***************************************************************************)
(* C18: the step graph induced by the emitted callback URLs is acyclic:    *)
(* every callback targets a step strictly later in the flow than the step  *)
(* that emitted it, so a carrier that only follows callbacks, started at   *)
(* Entry or Diagnostic with any inputs, gets a response without callback   *)
(* after at most 5 turns; an invalid selection is never prompted again.    *)
(***************************************************************************)
C18_CallFlowAcyclic ==
    trail # <<>> =>
        /\ \A u \in AllCallbacks :
               /\ TargetsOf(u) # {}
               /\ \A r \in TargetsOf(u) : Rank(r) > Rank(route)
        /\ Len(trail) <= 5
        /\ Len(trail) = 5 => AllCallbacks = {}
        /\ PresentInvalid => AllCallbacks = {}

C18_Witness ==
    /\ Len(trail) = 3
    /\ trail[1] = Turn("/ongea", Some("2545"))
    /\ trail[2] = Turn("/emergency/region", Some("2"))
    /\ route = "/emergency/recording"
    /\ resp.status_code = 200
    /\ AllCallbacks = {}

\* some request before position n of the call went to route r with digits in ds
Earlier(n, r, ds) ==
    \E i \in 1..(n - 1) : trail[i].route = r /\ trail[i].dtmfDigits \in ds

ClosingAcknowledgement ==
    "Your emergency report has been recorded and sent to the appropriate authorities. Emergency services will respond shortly. Thank you for calling."

(***************************************************************************)
(* C19: in a call that starts at Entry and follows the callback URLs, the  *)
(* closing acknowledgement of EmergencyRecording is spoken only after      *)
(* EmergencyRegion accepted a digit in 1..3, which happens only after      *)
(* ServiceSelect received 3, which happens only after LanguageSelect       *)
(* received 1 or 2; a hunger (resp. water) acknowledgement is spoken only  *)
(* after ServiceSelect received 1 (resp. 2).                               *)
(***************************************************************************)
C19_StepOrder ==
    (trail # <<>> /\ trail[1].route = "/voice") =>
        /\ (route = "/emergency/recording" /\ Actions = <<Say(ClosingAcknowledgement)>>)
               => Earlier(Len(trail), "/emergency/region", {Some("1"), Some("2"), Some("3")})
        /\ \A n \in 1..Len(trail) :
               /\ (trail[n].route = "/emergency/region"
                   /\ trail[n].dtmfDigits \in {Some("1"), Some("2"), Some("3")})
                      => Earlier(n, "/service/selection", {Some("3")})
               /\ (trail[n].route = "/service/selection" /\ trail[n].dtmfDigits = Some("3"))
                      => Earlier(n, "/voice/language", {Some("1"), Some("2")})
        /\ (IsMarkup200 /\ Len(Actions) >= 1
            /\ Contains(Actions[1].text, "has been notified about the hunger situation"))
               => /\ Earlier(Len(trail), "/service/selection", {Some("1")})
                  /\ Earlier(Len(trail), "/voice/language", {Some("1"), Some("2")})
        /\ (IsMarkup200 /\ Len(Actions) >= 1
            /\ Contains(Actions[1].text, "has been notified about the water shortage"))
               => /\ Earlier(Len(trail), "/service/selection", {Some("2")})
                  /\ Earlier(Len(trail), "/voice/language", {Some("1"), Some("2")})

C19_Witness ==
    /\ Len(trail) = 5
    /\ trail[1].route = "/voice"
    /\ trail[2] = Turn("/voice/language", Some("2"))
    /\ trail[3] = Turn("/service/selection", Some("3"))
    /\ trail[4] = Turn("/emergency/region", Some("1"))
    /\ route = "/emergency/recording"
    /\ Actions = <<Say(ClosingAcknowledgement)>>

(***************************************************************************)
(* C20: an empty dtmfDigits string is treated exactly like an absent       *)
(* dtmfDigits field: on every digit step the response to dtmfDigits = ""   *)
(* equals the response to the same request without dtmfDigits.             *)
(***************************************************************************)
C20_EmptyLikeAbsent ==
    (route \in DigitRoutes /\ Pressed("")) =>
        resp = Handle(APP_URL, route, [form EXCEPT !.dtmfDigits = None], FALSE)

\* the five steps on which the empty string is answered like an absent field
C20_EmptyLikeAbsentExceptDiagnostic ==
    (route \in DigitRoutes \ {"/ongea"} /\ Pressed("")) =>
        resp = Handle(APP_URL, route, [form EXCEPT !.dtmfDigits = None], FALSE)

====
